---- MODULE Spec2Model ----
(***************************************************************************)
(* plot_stft.py: a straight-line script that loads a time signal and a     *)
(* headerless binary STFT dump, reshapes the dump to                       *)
(* (frame_count, bin_count, 2), rebuilds the complex matrix, takes its     *)
(* magnitude, renders two figures and writes stft-plot.png.                *)
(*                                                                         *)
(* Representation.                                                         *)
(*  - A Python float is an exact rational [num, den] (den > 0); the        *)
(*    values used have power-of-two denominators, so the float product     *)
(*    sample_rate * duration is exact.                                     *)
(*  - A float32 item of the binary file is an integer (a finite value).    *)
(*  - An ndarray is [shape, flat]: its shape and its elements in C         *)
(*    (row-major) order, as numpy stores a freshly read/reshaped array.    *)
(*  - A complex number is [re, im].                                        *)
(*  - The magnitude sqrt(n) is the exact surd [sqrt_of |-> n].             *)
(***************************************************************************)
EXTENDS Integers, Sequences, FiniteSets, TLC

VARIABLES
    sample_rate, duration, hop, win, fftsize,  \* lines 5-6, 9-11
    signal_len, outsize,                       \* lines 7, 12
    fs_signal, fs_bin, fs_png,                 \* signal.txt, stft_out.bin, stft-plot.png
    time_data, data, complex_data, mag,        \* lines 15, 18-19, 20, 23
    figures,                                   \* pyplot's figures, in creation order
    pc, error, steps                           \* next statement, uncaught exception, statements run

vars == << sample_rate, duration, hop, win, fftsize, signal_len, outsize,
           fs_signal, fs_bin, fs_png, time_data, data, complex_data, mag,
           figures, pc, error, steps >>

----------------------------------------------------------------------------
(* Bounds of the model *)

\* longest binary file (in float32 items) of the small-geometry runs
MaxBufLen == 8
\* the script-geometry runs read files of ScriptBufLen - LenSlack .. ScriptBufLen + LenSlack items
LenSlack == 1

\* float32 values stored in the small binary files
Values == {-1, 2}

----------------------------------------------------------------------------
(* Python floats and integer arithmetic *)

Float(n, d) == [num |-> n, den |-> d]

\* float * float (exact for the modelled values)
FMul(x, y) == Float(x.num * y.num, x.den * y.den)

\* round-half-to-even of a float (what int() would be were it round())
PyInt_Round(x) ==
    LET a == IF x.num >= 0 THEN x.num ELSE -x.num
        f == a \div x.den
        r == IF 2 * (a - f * x.den) < x.den THEN f
             ELSE IF 2 * (a - f * x.den) > x.den THEN f + 1
             ELSE IF f % 2 = 0 THEN f ELSE f + 1
    IN  IF x.num >= 0 THEN r ELSE -r

\* int(x) of a float: truncation toward zero
PyInt(x) ==
    IF x.num >= 0 THEN x.num \div x.den ELSE -((-x.num) \div x.den)

\* division rounded up
FloorDiv_Ceil(a, b) == -((-a) \div b)

\* a // b for b > 0: floor division
FloorDiv(a, b) == a \div b

----------------------------------------------------------------------------
(* ndarrays *)

Array(shape, flat) == [shape |-> shape, flat |-> flat]

\* value of a variable that is not bound yet
Unbound == Array(<< >>, << >>)

RECURSIVE Prod(_)
Prod(s) == IF s = << >> THEN 1 ELSE Head(s) * Prod(Tail(s))

Size(a) == Len(a.flat)

\* the dimensions of `shape` other than the one at position k
Others(shape, k) == [j \in 1..(Len(shape) - 1) |-> IF j < k THEN shape[j] ELSE shape[j + 1]]

Unknowns(shape) == {k \in 1..Len(shape) : shape[k] = -1}

\* a reshape that takes every dimension literally (no inference of -1)
Reshape_NoInfer(a, shape) ==
    IF (\A k \in 1..Len(shape) : shape[k] >= 0) /\ Prod(shape) = Size(a)
    THEN [ok |-> TRUE, arr |-> Array(shape, a.flat)]
    ELSE [ok |-> FALSE, arr |-> a]

\* a reshape that silently drops the items beyond the requested shape
Reshape_Truncating(a, shape) ==
    IF Len(shape) = 3 /\ shape[1] >= 0 /\ shape[2] > 0 /\ shape[3] > 0
       /\ Size(a) >= Prod(shape)
    THEN [ok |-> TRUE, arr |-> Array(shape, SubSeq(a.flat, 1, Prod(shape)))]
    ELSE [ok |-> FALSE, arr |-> a]

\* ndarray.reshape(shape): [ok, arr]; ok = FALSE is numpy's ValueError.
\* A dimension of -1 is inferred from the size; the elements keep their C order.
Reshape(a, shape) ==
    LET n  == Size(a)
        un == Unknowns(shape)
    IN  IF \E k \in 1..Len(shape) : shape[k] < -1
        THEN [ok |-> FALSE, arr |-> a]               \* negative dimensions are not allowed
        ELSE IF un = {}
        THEN IF Prod(shape) = n
             THEN [ok |-> TRUE, arr |-> Array(shape, a.flat)]
             ELSE [ok |-> FALSE, arr |-> a]          \* cannot reshape array of size n
        ELSE IF Cardinality(un) > 1
        THEN [ok |-> FALSE, arr |-> a]               \* can only specify one unknown dimension
        ELSE LET k == CHOOSE j \in un : TRUE
                 p == Prod(Others(shape, k))
             IN  IF p = 0 \/ n % p # 0
                 THEN [ok |-> FALSE, arr |-> a]
                 ELSE [ok |-> TRUE,
                       arr |-> Array([j \in 1..Len(shape) |->
                                         IF j = k THEN n \div p ELSE shape[j]],
                                     a.flat)]

----------------------------------------------------------------------------
(* Complex arithmetic, as numpy evaluates data[..., 0] + 1j * data[..., 1] *)

Complex(re, im) == [re |-> re, im |-> im]

\* the literal 1j
ImagUnit == Complex(0, 1)

\* promotion of a real item to complex
AsComplex(x) == Complex(x, 0)

CAdd(z, w) == Complex(z.re + w.re, z.im + w.im)

CMul(z, w) == Complex(z.re * w.re - z.im * w.im, z.re * w.im + z.im * w.re)

\* item j of a[..., k] under a planar layout: all the k = 0 items first, then the k = 1 items
Item_Planar(a, j, k) == a.flat[k * (Size(a) \div a.shape[Len(a.shape)]) + j]

\* item j (1-based, C order) of a[..., k]: index k (0-based) of the last axis
Item(a, j, k) == a.flat[(j - 1) * a.shape[Len(a.shape)] + k + 1]

\* the shape of a[..., k]: every axis but the last
LeadingShape(a) == SubSeq(a.shape, 1, Len(a.shape) - 1)

\* line 20 with the pair read as (imaginary, real)
ComplexOf_Swapped(a) ==
    Array(LeadingShape(a),
          [j \in 1..Prod(LeadingShape(a)) |->
              CAdd(AsComplex(Item(a, j, 1)), CMul(ImagUnit, AsComplex(Item(a, j, 0))))])

\* line 20: data[..., 0] + 1j * data[..., 1], elementwise, the real items promoted to complex
ComplexOf(a) ==
    Array(LeadingShape(a),
          [j \in 1..Prod(LeadingShape(a)) |->
              CAdd(AsComplex(Item(a, j, 0)), CMul(ImagUnit, AsComplex(Item(a, j, 1))))])

\* the magnitude of the real part alone
Abs_RealOnly(z) == [sqrt_of |-> z.re * z.re]

\* abs(z) = sqrt(re^2 + im^2), kept as the exact surd
Abs(z) == [sqrt_of |-> z.re * z.re + z.im * z.im]

\* line 23: np.abs over the matrix
AbsArray(c) == Array(c.shape, [j \in 1..Size(c) |-> Abs(c.flat[j])])

\* a.T of a 2-D array
Transpose(a) ==
    LET r == a.shape[1]
        c == a.shape[2]
    IN  Array(<< c, r >>, [j \in 1..(r * c) |-> a.flat[((j - 1) % r) * c + ((j - 1) \div r) + 1]])

----------------------------------------------------------------------------
(* The files.  A file is [exists, ...]; a text file holds lines, a line is a  *)
(* comment or a row of tokens, a token is numeric or not; a binary file holds *)
(* whole float32 items.                                                       *)

Tok(v) == [numeric |-> TRUE, val |-> v]
BadTok == [numeric |-> FALSE, val |-> 0]
Row(toks) == [comment |-> FALSE, tokens |-> toks]
CommentLine == [comment |-> TRUE, tokens |-> << >>]
TextFile(lines) == [exists |-> TRUE, lines |-> lines]
NoTextFile == [exists |-> FALSE, lines |-> << >>]
BinFile(items) == [exists |-> TRUE, items |-> items]
NoBinFile == [exists |-> FALSE, items |-> << >>]

IsRow(line) == ~line.comment

RECURSIVE Flatten(_)
Flatten(rows) ==
    IF rows = << >> THEN << >>
    ELSE [j \in 1..Len(Head(rows).tokens) |-> Head(rows).tokens[j].val] \o Flatten(Tail(rows))

\* np.squeeze of a shape: the axes of length one dropped
Squeeze(shape) == SelectSeq(shape, LAMBDA d : d # 1)

\* a loader that skips the rows it cannot parse instead of raising
LoadTxt_Lenient(file) ==
    LET rows == SelectSeq(file.lines,
                          LAMBDA l : IsRow(l) /\ Len(l.tokens) = 2
                                     /\ \A j \in 1..Len(l.tokens) : l.tokens[j].numeric)
    IN  IF ~file.exists
        THEN [ok |-> FALSE, err |-> "FileNotFoundError", arr |-> Unbound]
        ELSE [ok |-> TRUE, err |-> "none", arr |-> Array(<< Len(rows), 2 >>, Flatten(rows))]

\* np.loadtxt(path, comments="#"): [ok, err, arr]
LoadTxt(file) ==
    LET rows == SelectSeq(file.lines, IsRow)
        n    == Len(rows)
        cols == IF n = 0 THEN 0 ELSE Len(rows[1].tokens)
    IN  IF ~file.exists
        THEN [ok |-> FALSE, err |-> "FileNotFoundError", arr |-> Unbound]
        ELSE IF \E i \in 1..n : \/ Len(rows[i].tokens) # cols
                                \/ \E j \in 1..Len(rows[i].tokens) : ~rows[i].tokens[j].numeric
        THEN [ok |-> FALSE, err |-> "ValueError", arr |-> Unbound]
        ELSE IF n = 0
        THEN [ok |-> TRUE, err |-> "none", arr |-> Array(<< 0 >>, << >>)]
        ELSE [ok |-> TRUE, err |-> "none", arr |-> Array(Squeeze(<< n, cols >>), Flatten(rows))]

\* np.fromfile(path, dtype=np.float32): [ok, err, arr], a 1-D array of the items
FromFile(file) ==
    IF ~file.exists
    THEN [ok |-> FALSE, err |-> "FileNotFoundError", arr |-> Unbound]
    ELSE [ok |-> TRUE, err |-> "none", arr |-> Array(<< Len(file.items) >>, file.items)]

\* a[:, k] is defined: a has two axes or more and a column k
HasColumn(a, k) == Len(a.shape) >= 2 /\ k < a.shape[2]

----------------------------------------------------------------------------
(* The script, one action per statement group *)

\* fftsize // 2, the bin count of line 19
bin_count == FloorDiv(fftsize, 2)

\* the shape with the bin axis first
ReshapeShape_BinsFirst == << bin_count, outsize, 2 >>

\* the shape asked of the reshape on line 19
ReshapeShape == << outsize, bin_count, 2 >>

Figure(w, h, artists) == [figsize |-> << w, h >>, artists |-> artists]

\* an uncaught exception that still falls through to the image write
Fail_ThenSave(exc) ==
    /\ pc' = "savefig"
    /\ error' = exc

\* an uncaught exception ends the run
Fail(exc) ==
    /\ pc' = "failed"
    /\ error' = exc

\* lines 7 and 12
Setup ==
    /\ pc = "setup"
    /\ signal_len' = PyInt(FMul(sample_rate, duration))
    /\ outsize' = FloorDiv(signal_len' - win, hop) + 1
    /\ pc' = "load_signal"
    /\ steps' = Append(steps, "setup")
    /\ UNCHANGED << sample_rate, duration, hop, win, fftsize, fs_signal, fs_bin, fs_png,
                    time_data, data, complex_data, mag, figures, error >>

\* line 15
LoadSignal ==
    /\ pc = "load_signal"
    /\ LET r == LoadTxt(fs_signal)
       IN  IF r.ok
           THEN /\ time_data' = r.arr
                /\ pc' = "load_bin"
                /\ error' = error
           ELSE /\ Fail(r.err)
                /\ time_data' = time_data
    /\ steps' = Append(steps, "load_signal")
    /\ UNCHANGED << sample_rate, duration, hop, win, fftsize, signal_len, outsize,
                    fs_signal, fs_bin, fs_png, data, complex_data, mag, figures >>

\* line 18
LoadBinary ==
    /\ pc = "load_bin"
    /\ LET r == FromFile(fs_bin)
       IN  IF r.ok
           THEN /\ data' = r.arr
                /\ pc' = "reshape"
                /\ error' = error
           ELSE /\ Fail(r.err)
                /\ data' = data
    /\ steps' = Append(steps, "load_bin")
    /\ UNCHANGED << sample_rate, duration, hop, win, fftsize, signal_len, outsize,
                    fs_signal, fs_bin, fs_png, time_data, complex_data, mag, figures >>

\* line 19
ReshapeData ==
    /\ pc = "reshape"
    /\ LET r == Reshape(data, ReshapeShape)
       IN  IF r.ok
           THEN /\ data' = r.arr
                /\ pc' = "complex"
                /\ error' = error
           ELSE /\ Fail("ValueError")
                /\ data' = data
    /\ steps' = Append(steps, "reshape")
    /\ UNCHANGED << sample_rate, duration, hop, win, fftsize, signal_len, outsize,
                    fs_signal, fs_bin, fs_png, time_data, complex_data, mag, figures >>

\* line 20
ComplexRecon ==
    /\ pc = "complex"
    /\ complex_data' = ComplexOf(data)
    /\ pc' = "mag"
    /\ steps' = Append(steps, "complex")
    /\ UNCHANGED << sample_rate, duration, hop, win, fftsize, signal_len, outsize,
                    fs_signal, fs_bin, fs_png, time_data, data, mag, figures, error >>

\* line 23
Magnitude ==
    /\ pc = "mag"
    /\ mag' = AbsArray(complex_data)
    /\ pc' = "plot_signal"
    /\ steps' = Append(steps, "mag")
    /\ UNCHANGED << sample_rate, duration, hop, win, fftsize, signal_len, outsize,
                    fs_signal, fs_bin, fs_png, time_data, data, complex_data, figures, error >>

\* lines 26-31: the figure is created before time_data[:, 0] and time_data[:, 1] are taken
PlotSignal ==
    /\ pc = "plot_signal"
    /\ IF HasColumn(time_data, 0) /\ HasColumn(time_data, 1)
       THEN /\ figures' = Append(figures, Figure(12, 4,
                              << "line", "title", "xlabel", "ylabel", "grid" >>))
            /\ pc' = "plot_spec"
            /\ error' = error
       ELSE /\ figures' = Append(figures, Figure(12, 4, << >>))
            /\ Fail("IndexError")
    /\ steps' = Append(steps, "plot_signal")
    /\ UNCHANGED << sample_rate, duration, hop, win, fftsize, signal_len, outsize,
                    fs_signal, fs_bin, fs_png, time_data, data, complex_data, mag >>

\* lines 34-41: imshow of the transposed magnitude (in dB).  What the renderer does
\* with an image of no pixels is not fixed by the script: it may draw or raise.
PlotSpectrogram ==
    /\ pc = "plot_spec"
    /\ \E renders \in BOOLEAN :
          /\ renders \/ Size(Transpose(mag)) = 0
          /\ IF renders
             THEN /\ figures' = Append(figures, Figure(12, 6,
                                    << "image", "colorbar", "title", "xlabel", "ylabel" >>))
                  /\ pc' = "savefig"
                  /\ error' = error
             ELSE /\ figures' = Append(figures, Figure(12, 6, << >>))
                  /\ Fail("RendererError")
    /\ steps' = Append(steps, "plot_spec")
    /\ UNCHANGED << sample_rate, duration, hop, win, fftsize, signal_len, outsize,
                    fs_signal, fs_bin, fs_png, time_data, data, complex_data, mag >>

\* line 43
SaveFig ==
    /\ pc = "savefig"
    /\ fs_png' = TRUE
    /\ pc' = "done"
    /\ steps' = Append(steps, "savefig")
    /\ UNCHANGED << sample_rate, duration, hop, win, fftsize, signal_len, outsize,
                    fs_signal, fs_bin, time_data, data, complex_data, mag, figures, error >>

Next ==
    \/ Setup
    \/ LoadSignal
    \/ LoadBinary
    \/ ReshapeData
    \/ ComplexRecon
    \/ Magnitude
    \/ PlotSignal
    \/ PlotSpectrogram
    \/ SaveFig

----------------------------------------------------------------------------
(* Inputs *)

\* signal.txt: absent, well formed, and the malformed and degenerate tables
GoodSignal == TextFile(<< CommentLine, Row(<< Tok(0), Tok(1) >>), Row(<< Tok(1), Tok(-1) >>) >>)

OneRowSignal == TextFile(<< Row(<< Tok(0), Tok(1) >>) >>)

SignalFiles ==
    { NoTextFile,
      GoodSignal,
      OneRowSignal,
      TextFile(<< Row(<< Tok(0), Tok(1), Tok(5) >>), Row(<< Tok(1), Tok(2), Tok(5) >>) >>),
      TextFile(<< Row(<< Tok(0), Tok(1) >>), Row(<< Tok(1), BadTok >>) >>),
      TextFile(<< Row(<< Tok(0), Tok(1) >>), Row(<< Tok(1) >>) >>),
      TextFile(<< Row(<< Tok(0) >>), Row(<< Tok(1) >>) >>),
      TextFile(<< CommentLine >>) }

\* stft_out.bin of the small-geometry runs: absent, or any items up to MaxBufLen
BinFiles ==
    { NoBinFile } \cup { BinFile(items) : items \in UNION { [1..n -> Values] : n \in 0..MaxBufLen } }

SampleRates == { Float(4, 1), Float(11, 2) }
Durations == { Float(1, 1), Float(1, 2) }
Hops == { 1, 2 }
Wins == { 2, 5 }
FftSizes == { 1, 2, 3, 4 }

\* the script's literals (lines 5, 6, 9, 10, 11)
ScriptSampleRate == Float(8000, 1)
ScriptDuration == Float(1, 1)
ScriptHop == 128
ScriptWin == 256
ScriptFftSize == 256

\* the item count the script's geometry asks of stft_out.bin
ScriptBufLen ==
    (FloorDiv(PyInt(FMul(ScriptSampleRate, ScriptDuration)) - ScriptWin, ScriptHop) + 1)
        * FloorDiv(ScriptFftSize, 2) * 2

\* stft_out.bin of the script-geometry runs: absent, or a patterned file of about ScriptBufLen items
ScriptBinFiles ==
    { NoBinFile } \cup
    { BinFile([i \in 1..n |-> ((i * k) % 7) - 3]) :
          n \in (ScriptBufLen - LenSlack)..(ScriptBufLen + LenSlack), k \in {1, 2} }

Start ==
    /\ signal_len = 0
    /\ outsize = 0
    /\ fs_png = FALSE
    /\ time_data = Unbound
    /\ data = Unbound
    /\ complex_data = Unbound
    /\ mag = Unbound
    /\ figures = << >>
    /\ pc = "setup"
    /\ error = "none"
    /\ steps = << >>

\* the script generalised over its framing parameters (small geometries)
Init ==
    /\ sample_rate \in SampleRates
    /\ duration \in Durations
    /\ hop \in Hops
    /\ win \in Wins
    /\ fftsize \in FftSizes
    /\ fs_signal \in { NoTextFile, GoodSignal, OneRowSignal }
    /\ fs_bin \in BinFiles
    /\ Start

\* the script as written
ScriptInit ==
    /\ sample_rate = ScriptSampleRate
    /\ duration = ScriptDuration
    /\ hop = ScriptHop
    /\ win = ScriptWin
    /\ fftsize = ScriptFftSize
    /\ fs_signal \in SignalFiles
    /\ fs_bin \in ScriptBinFiles
    /\ Start

Spec == Init /\ [][Next]_vars

ScriptSpec == ScriptInit /\ [][Next]_vars

----------------------------------------------------------------------------
(* Vocabulary of the properties *)

Order == << "setup", "load_signal", "load_bin", "reshape", "complex", "mag",
            "plot_signal", "plot_spec", "savefig" >>

\* statement s has run (to completion or to its exception)
Ran(s) == \E i \in 1..Len(steps) : steps[i] = s

\* the run ended in statement s
FailedAt(s) == pc = "failed" /\ steps # << >> /\ steps[Len(steps)] = s

Terminated == pc \in { "done", "failed" }

\* a[f, b] of a 2-D array (0-based indices)
At(a, f, b) == a.flat[f * a.shape[2] + b + 1]

IsPrefix(s, t) == Len(s) <= Len(t) /\ \A i \in 1..Len(s) : s[i] = t[i]

\* the buffer: the items of stft_out.bin
Buffer == fs_bin.items

\* frame_count * bin_count * 2
ExpectedLen == outsize * bin_count * 2

ValidGeometry == outsize >= 1 /\ bin_count >= 1

\* the flat (real, imag) pair layout of a complex matrix: frames, then bins, then the pair
Encode(m) ==
    LET bc == m.shape[2]
    IN  [i \in 1..(2 * m.shape[1] * bc) |->
            LET q == (i - 1) \div 2
                z == At(m, q \div bc, q % bc)
            IN  IF (i - 1) % 2 = 0 THEN z.re ELSE z.im]

\* every complex matrix of the shape over the modelled values
Matrices(fc, bc) ==
    { Array(<< fc, bc >>, fl) :
        fl \in [1..(fc * bc) -> { Complex(r, i) : r \in Values, i \in Values }] }

\* the text of signal.txt does not parse as a table
Unparsable(file) ==
    /\ file.exists
    /\ \E i \in 1..Len(file.lines), j \in 1..Len(file.lines) :
          /\ ~file.lines[i].comment
          /\ ~file.lines[j].comment
          /\ \/ Len(file.lines[i].tokens) # Len(file.lines[j].tokens)
             \/ \E k \in 1..Len(file.lines[i].tokens) : ~file.lines[i].tokens[k].numeric

----------------------------------------------------------------------------
(* Properties *)

\* C1: with a valid (frame_count, bin_count) and a buffer of exactly
\* frame_count*bin_count*2 items, the reshape and the complex reconstruction raise
\* nothing and the decoded matrix has shape (frame_count, bin_count).
C1_DecodeShape ==
    (Ran("reshape") /\ ValidGeometry /\ Len(Buffer) = ExpectedLen) =>
        /\ ~FailedAt("reshape")
        /\ data.shape = << outsize, bin_count, 2 >>
        /\ Ran("complex") =>
              /\ ~FailedAt("complex")
              /\ complex_data.shape = << outsize, bin_count >>
              /\ Size(complex_data) = outsize * bin_count

C1_Witness ==
    /\ pc = "mag"
    /\ outsize = 2
    /\ bin_count = 1
    /\ Len(Buffer) = 4
    /\ complex_data.shape = << 2, 1 >>

\* C2: with frame and bin counts that are counts (>= 0), a buffer whose length is not
\* frame_count*bin_count*2 (a multiple of it or not) makes the reshape raise ValueError:
\* the buffer is left as read, neither truncated nor padded, and no complex matrix is made.
C2_ShapeMismatch ==
    (Ran("reshape") /\ outsize >= 0 /\ bin_count >= 0 /\ Len(Buffer) # ExpectedLen) =>
        /\ FailedAt("reshape")
        /\ error = "ValueError"
        /\ data = Array(<< Len(Buffer) >>, Buffer)
        /\ complex_data = Unbound
        /\ ~Ran("complex")

C2_Witness ==
    /\ FailedAt("reshape")
    /\ ValidGeometry
    /\ Len(Buffer) = 2 * ExpectedLen
    /\ error = "ValueError"

\* C3: element [f][b] of the decoded matrix is buffer[idx] + i*buffer[idx+1] with
\* idx = 2*(f*bin_count + b) (0-based): frames outermost, bins next, the pair innermost.
C3_RowMajorPairs ==
    (Ran("complex") /\ ValidGeometry) =>
        \A f \in 0..(outsize - 1), b \in 0..(bin_count - 1) :
            LET idx == 2 * (f * bin_count + b)
            IN  At(complex_data, f, b) = Complex(Buffer[idx + 1], Buffer[idx + 2])

C3_Witness ==
    /\ Ran("complex")
    /\ outsize = 2
    /\ bin_count = 2
    /\ Buffer = << -1, 2, 2, 2, -1, -1, 2, -1 >>
    /\ At(complex_data, 1, 0) = Complex(-1, -1)

\* C4: for every complex matrix M of shape (frame_count, bin_count), decoding the
\* encoding of M gives M back, element for element.
C4_RoundTrip ==
    (pc = "mag" /\ ValidGeometry) =>
        \A m \in Matrices(outsize, bin_count) :
            Encode(m) = Buffer => complex_data = m

C4_Witness ==
    /\ Ran("complex")
    /\ outsize = 2
    /\ bin_count = 2
    /\ \E m \in Matrices(2, 2) :
          /\ Encode(m) = Buffer
          /\ complex_data = m
          /\ At(m, 0, 1) # At(m, 1, 0)
          /\ At(m, 0, 0).re # At(m, 0, 0).im

\* C5: the script's constants give signal_length 8000, frame_count 61, bin_count 128;
\* a buffer of 15616 items decodes to a (61, 128) matrix, one of 15615 or 15617 items
\* fails in the reshape.
C5_ScriptGeometry ==
    Ran("setup") =>
        /\ signal_len = 8000
        /\ outsize = 61
        /\ bin_count = 128
        /\ (Ran("reshape") /\ Len(Buffer) = 15616) =>
              /\ ~FailedAt("reshape")
              /\ Ran("complex") => complex_data.shape = << 61, 128 >>
        /\ (Ran("reshape") /\ Len(Buffer) \in { 15615, 15617 }) =>
              /\ FailedAt("reshape")
              /\ error = "ValueError"

C5_Witness ==
    /\ pc = "mag"
    /\ Len(Buffer) = 15616
    /\ complex_data.shape = << 61, 128 >>
    /\ Size(complex_data) = 7808

\* C6: when an input file is missing, the signal text does not parse or the buffer has
\* the wrong length, no plotting call is made and stft-plot.png is not written; the run
\* can only end in a propagated error.
C6_NoPartialSuccess ==
    LET inputFailure ==
            \/ ~fs_signal.exists
            \/ ~fs_bin.exists
            \/ Unparsable(fs_signal)
            \/ Ran("setup") /\ Len(Buffer) # ExpectedLen
    IN  inputFailure =>
            /\ figures = << >>
            /\ ~fs_png
            /\ ~Ran("plot_signal") /\ ~Ran("plot_spec") /\ ~Ran("savefig")
            /\ pc # "done"
            /\ pc = "failed" => error \in { "FileNotFoundError", "ValueError" }

C6_Witness ==
    /\ FailedAt("reshape")
    /\ error = "ValueError"
    /\ fs_signal = GoodSignal
    /\ Len(Buffer) = ExpectedLen + 1
    /\ figures = << >>
    /\ ~fs_png

\* C7: for every decoded pair (r, i) the magnitude of r + i*j equals the magnitude of
\* i + r*j, while the complex values themselves are equal only when r = i.
C7_MagnitudeSwap ==
    Ran("mag") =>
        \A j \in 1..Size(complex_data) :
            LET r == Buffer[2 * j - 1]
                i == Buffer[2 * j]
            IN  /\ complex_data.flat[j] = Complex(r, i)
                /\ mag.flat[j] = Abs(Complex(i, r))
                /\ (complex_data.flat[j] = Complex(i, r)) <=> (r = i)

C7_Witness ==
    /\ Ran("mag")
    /\ Size(complex_data) >= 2
    /\ complex_data.flat[1] = Complex(-1, 2)
    /\ complex_data.flat[2] = Complex(2, 2)
    /\ mag.flat[1] = [sqrt_of |-> 5]

\* C8: a run is the statements in their one order, each at most once, none started after
\* a failure; the first failure ends the run, a run that reaches the end has rendered the
\* waveform then the spectrogram and written the image last; and every run terminates:
\* each step is one more statement of the nine, and a run that has not ended can step.
C8_LinearRun ==
    /\ [](IsPrefix(steps, Order))
    /\ []((error # "none") <=> (pc = "failed"))
    /\ [](pc = "done" =>
            /\ steps = Order
            /\ fs_png
            /\ Len(figures) = 2
            /\ figures[1].artists[1] = "line"
            /\ figures[2].artists[1] = "image")
    /\ [](pc # "done" => ~fs_png)
    /\ [][/\ ~Terminated
          /\ error = "none"
          /\ steps' = Append(steps, Order[Len(steps) + 1])
          /\ Terminated' \/ pc' = Order[Len(steps') + 1]]_vars
    /\ [](Terminated \/ ENABLED Next)

C8_Witness ==
    /\ pc = "done"
    /\ steps = Order
    /\ fs_png

\* C9 as stated: signal_length is the rounded product sample_rate * duration.
C9_AsStated ==
    (Ran("setup") /\ fftsize % 2 = 0 /\ hop >= 1
       /\ win <= PyInt_Round(FMul(sample_rate, duration))) =>
        /\ signal_len = PyInt_Round(FMul(sample_rate, duration))
        /\ hop * (outsize - 1) <= signal_len - win
        /\ signal_len - win < hop * outsize
        /\ 2 * bin_count = fftsize

\* C9, amended: signal_length is the (non-negative) product sample_rate * duration
\* truncated to an integer: the rounded product when the fractional part is below one
\* half, one less than it when the fractional part is above one half;
\* frame_count = floor((signal_length - window) / hop) + 1 and bin_count = fft_size / 2.
C9_Truncates ==
    (Ran("setup") /\ fftsize % 2 = 0 /\ hop >= 1 /\ win <= signal_len) =>
        LET x == FMul(sample_rate, duration)
        IN  /\ x.den * signal_len <= x.num
            /\ x.num < x.den * (signal_len + 1)
            /\ (2 * (x.num - x.den * signal_len) < x.den) => signal_len = PyInt_Round(x)
            /\ (2 * (x.num - x.den * signal_len) > x.den) => signal_len = PyInt_Round(x) - 1
            /\ hop * (outsize - 1) <= signal_len - win
            /\ signal_len - win < hop * outsize
            /\ 2 * bin_count = fftsize

C9_Witness ==
    /\ Ran("setup")
    /\ fftsize = 4
    /\ win <= signal_len
    /\ FMul(sample_rate, duration) = Float(11, 4)
    /\ signal_len = 2
    /\ PyInt_Round(FMul(sample_rate, duration)) = 3

\* C10 as stated: with window > signal_length the frame count is <= 0 and the decode
\* never yields one or more frames.
C10_AsStated ==
    (Ran("setup") /\ win > signal_len /\ hop >= 1) =>
        /\ outsize <= 0
        /\ Ran("reshape") => (FailedAt("reshape") \/ data.shape[1] = 0)
        /\ Ran("complex") => complex_data.shape[1] = 0

\* C10, amended: with window > signal_length the frame count is <= 0; when it is 0 or
\* below -1 the decode fails or yields an empty matrix; when it is exactly -1 the reshape
\* infers the frame count, so a buffer of k*bin_count*2 items (bin_count >= 1) decodes to
\* k frames, and any other buffer fails.
C10_InferredFrames ==
    (Ran("setup") /\ win > signal_len /\ hop >= 1) =>
        /\ outsize <= 0
        /\ (outsize # -1) =>
              /\ Ran("reshape") => (FailedAt("reshape") \/ data.shape[1] = 0)
              /\ Ran("complex") => complex_data.shape[1] = 0
        /\ (outsize = -1 /\ Ran("reshape")) =>
              IF bin_count >= 1 /\ Len(Buffer) % (2 * bin_count) = 0
              THEN /\ ~FailedAt("reshape")
                   /\ data.shape = << Len(Buffer) \div (2 * bin_count), bin_count, 2 >>
                   /\ Ran("complex") =>
                         complex_data.shape = << Len(Buffer) \div (2 * bin_count), bin_count >>
              ELSE FailedAt("reshape") /\ error = "ValueError"

C10_Witness ==
    /\ Ran("complex")
    /\ win > signal_len
    /\ outsize = -1
    /\ Len(Buffer) = 8
    /\ complex_data.shape = << 2, 2 >>

====
